---- MODULE Spec2Model ----
(***************************************************************************)
(* Model of log_analyzer.py: analyze_log folds the lines of a log file     *)
(* into four accumulators and derives a result dictionary; main prints it  *)
(* and sets the exit code.                                                 *)
(*                                                                         *)
(* A line of the file is a record                                          *)
(*   [pad, kind, rt, st, ts]                                               *)
(* pad  : the raw line carries surrounding whitespace besides the "\n"     *)
(* kind : "empty"   nothing is left after strip()                          *)
(*        "garbage" text json.loads rejects, e.g.  not json                *)
(*        "deep"    brackets nested beyond the recursion limit, closed or  *)
(*                  not, e.g. 100000 times "["                             *)
(*        "huge"    a number of more than 4300 digits                      *)
(*        "scalar"  a JSON number, null, true or false, e.g.  123          *)
(*        "array"   a JSON array without the field names, e.g.  []         *)
(*        "object"  a JSON object                                          *)
(* rt   : value of "response_time_ms", a JSON value [t, n]                 *)
(* st   : value of "http_status", a JSON value [t, n]                      *)
(* ts   : value of "timestamp", [t, hh]; for a string, hh is the slice     *)
(*        [11:13] of it as a sequence of characters, each character being  *)
(*        its code point (48 is "0", 9 is the tab)                         *)
(* A JSON value [t, n] has t in "absent" (key not in the object), "int",   *)
(* "bigint", "bool", "str", "null"; n is the number (int), the number of    *)
(* times 10**309 (bigint, an integer no double holds), 1/0 (bool), or the  *)
(* number whose decimal digits are the text (str).                         *)
(* A sum [big, n] is the integer big * 10**309 + n.  An average            *)
(* [big, n, den] is the double nearest to (big * 10**309 + n) / den: an    *)
(* average rounded to two decimals is [0, hundredths, 100].                *)
(* stderr counts the messages written: one per print to sys.stderr, one    *)
(* for the traceback of an exception nothing catches.                      *)
(***************************************************************************)
EXTENDS Integers, Sequences, FiniteSets, TLC

VARIABLES pc, lines, total_requests, total_response_time_sum,
          status_code_counts, hourly_requests, stderr, raised, result,
          stdout, exit_code

vars == <<pc, lines, total_requests, total_response_time_sum,
          status_code_counts, hourly_requests, stderr, raised, result,
          stdout, exit_code>>

\* Largest number of lines read from one file.
MaxLines == 3

----------------------------------------------------------------------------
\* JSON values and the lines of the files considered

Absent == [t |-> "absent", n |-> 0]
JInt(n) == [t |-> "int", n |-> n]
JBigInt(n) == [t |-> "bigint", n |-> n]
JBool(b) == [t |-> "bool", n |-> IF b THEN 1 ELSE 0]
JStr(n) == [t |-> "str", n |-> n]
JNull == [t |-> "null", n |-> 0]

TsAbsent == [t |-> "absent", hh |-> <<>>]
TsInt == [t |-> "int", hh |-> <<>>]
TsStr(hh) == [t |-> "str", hh |-> hh]

Text(pad, kind) ==
  [pad |-> pad, kind |-> kind, rt |-> Absent, st |-> Absent, ts |-> TsAbsent]

Obj(rt, st, ts) ==
  [pad |-> FALSE, kind |-> "object", rt |-> rt, st |-> st, ts |-> ts]

H10 == TsStr(<<49, 48>>)                        \* "10"
H11 == TsStr(<<49, 49>>)                        \* "11"

Lines ==
  { Text(FALSE, "empty"),                      \* "\n"
    Text(TRUE, "empty"),                       \* "   \n"
    Text(FALSE, "garbage"),                    \* not json
    Text(FALSE, "deep"),                       \* [[[[ ... 100000 times
    Text(FALSE, "huge"),                       \* 1111 ... 5000 digits
    Text(FALSE, "scalar"),                     \* 123
    Text(FALSE, "array"),                      \* []
    Obj(Absent, Absent, TsAbsent),             \* {}
    [Obj(JInt(100), JInt(200), H10) EXCEPT !.pad = TRUE],
    Obj(JInt(300), JInt(200), H11),
    Obj(Absent, JInt(404), H10),
    Obj(Absent, JStr(200), TsAbsent),          \* "http_status": "200"
    Obj(Absent, Absent, H11),
    Obj(JStr(0), JInt(200), H10),              \* "response_time_ms": "0"
    Obj(JNull, JInt(404), H11),                \* "response_time_ms": null
    Obj(JBool(TRUE), JInt(200), H10),          \* "response_time_ms": true
    Obj(Absent, JInt(200), TsInt),             \* "timestamp": 5
    Obj(JBigInt(1), Absent, TsAbsent),         \* "response_time_ms": 1 and 309 zeros
    Obj(Absent, Absent, TsStr(<<57, 57>>)),    \* "99"
    Obj(Absent, Absent, TsStr(<<45, 49>>)),    \* "-1"
    Obj(Absent, Absent, TsStr(<<32, 55>>)),    \* " 7"
    Obj(Absent, Absent, TsStr(<<9, 55>>)),     \* tab, "7"
    Obj(Absent, Absent, TsStr(<<1633, 1634>>)),     \* Arabic-Indic digits 1, 2
    Obj(JInt(100), JInt(200), TsStr(<<97, 98>>)),   \* "ab"
    Obj(Absent, Absent, TsStr(<<>>)) }         \* "timestamp": "2024"

----------------------------------------------------------------------------
\* Built-ins of the language the code relies on

\* the characters int() takes for blanks
IntSpace ==
  {9, 10, 11, 12, 13, 32, 133, 160, 5760, 8232, 8233, 8239, 8287, 12288}
    \cup (8192..8202)

\* the digit zero of every script: the ten digits of a script follow it
DigitZeros ==
  {48, 1632, 1776, 1984, 2406, 2534, 2662, 2790, 2918, 3046, 3174, 3302,
   3430, 3558, 3664, 3792, 3872, 4160, 4240, 6112, 6160, 6470, 6608, 6784,
   6800, 6992, 7088, 7232, 7248, 42528, 43216, 43264, 43472, 43504, 43600,
   44016, 65296, 66720, 68912, 69734, 69872, 69942, 70096, 70384, 70736,
   70864, 71248, 71360, 71472, 71904, 72016, 72784, 73040, 73120, 92768,
   92864, 93008, 120782, 120792, 120802, 120812, 120822, 123200, 123632,
   125264, 130032}

IsDigit(c) == \E z \in DigitZeros : c \in z..(z + 9)

DigitVal(c) == c - (CHOOSE z \in DigitZeros : c \in z..(z + 9))

\* the blanks int() drops at both ends
RECURSIVE StripChars(_)
StripChars(s) ==
  IF s = <<>> THEN s
  ELSE IF Head(s) \in IntSpace THEN StripChars(Tail(s))
  ELSE IF s[Len(s)] \in IntSpace THEN StripChars(SubSeq(s, 1, Len(s) - 1))
  ELSE s

RECURSIVE DigitsVal(_)
DigitsVal(s) ==
  IF s = <<>> THEN 0 ELSE 10 * DigitsVal(SubSeq(s, 1, Len(s) - 1)) + DigitVal(s[Len(s)])

AllDigits(s) == s # <<>> /\ \A i \in 1..Len(s) : IsDigit(s[i])

\* int(text) for a text of at most two characters: blanks at both ends are
\* dropped, one sign "-" (45) or "+" (43) may lead, the rest is decimal
\* digits of any script; anything else raises ValueError.
PyInt(s) ==
  LET b == StripChars(s) IN
  IF AllDigits(b) THEN [exc |-> "none", val |-> DigitsVal(b)]
  ELSE IF b # <<>> /\ Head(b) = 45 /\ AllDigits(Tail(b))
    THEN [exc |-> "none", val |-> 0 - DigitsVal(Tail(b))]
  ELSE IF b # <<>> /\ Head(b) = 43 /\ AllDigits(Tail(b))
    THEN [exc |-> "none", val |-> DigitsVal(Tail(b))]
  ELSE [exc |-> "ValueError", val |-> 0]

DigitChar(d) ==
  CASE d = 0 -> "0" [] d = 1 -> "1" [] d = 2 -> "2" [] d = 3 -> "3"
    [] d = 4 -> "4" [] d = 5 -> "5" [] d = 6 -> "6" [] d = 7 -> "7"
    [] d = 8 -> "8" [] d = 9 -> "9"

RECURSIVE DecDigits(_)
DecDigits(n) ==
  IF n < 10 THEN DigitChar(n) ELSE DecDigits(n \div 10) \o DigitChar(n % 10)

\* str(n) of an integer
DecStr(n) == IF n < 0 THEN "-" \o DecDigits(0 - n) ELSE DecDigits(n)

RECURSIVE Zeros(_)
Zeros(k) == IF k = 0 THEN "" ELSE "0" \o Zeros(k - 1)

\* str(value) of a decoded JSON value
PyStr(v) ==
  CASE v.t = "int" -> DecStr(v.n)
    [] v.t = "bigint" -> DecStr(v.n) \o Zeros(309)
    [] v.t = "str" -> DecStr(v.n)
    [] v.t = "bool" -> IF v.n = 1 THEN "True" ELSE "False"
    [] OTHER -> "None"

\* defaultdict(int): d[k] += 1 on a mapping
Inc(d, k) ==
  IF k \in DOMAIN d THEN [d EXCEPT ![k] = @ + 1]
  ELSE [x \in DOMAIN d \cup {k} |-> IF x = k THEN 1 ELSE d[x]]

\* defaultdict(int): d[k] += 1 on a mapping kept in insertion order
IncOrdered(d, k) ==
  IF \E i \in 1..Len(d) : d[i].key = k
  THEN [i \in 1..Len(d) |->
          IF d[i].key = k THEN [key |-> k, count |-> d[i].count + 1] ELSE d[i]]
  ELSE Append(d, [key |-> k, count |-> 1])

\* max(d) without the key function: the largest key
PyMax_NoKey(d) ==
  d[CHOOSE i \in 1..Len(d) : \A j \in 1..Len(d) : d[j].key <= d[i].key].key

\* max(d, key=d.get): the first key, in insertion order, no later key beats
PyMax(d) ==
  LET i == CHOOSE i \in 1..Len(d) :
             /\ \A j \in 1..Len(d) : d[j].count <= d[i].count
             /\ \A j \in 1..(i - 1) : d[j].count < d[i].count
  IN d[i].key

\* a doubled until it reaches b
RECURSIVE AtLeast(_, _)
AtLeast(a, b) == IF a >= b THEN a ELSE AtLeast(2 * a, b)

\* b doubled as long as it stays within a
RECURSIVE AtMost(_, _)
AtMost(b, a) == IF 2 * b > a THEN b ELSE AtMost(2 * b, a)

\* long division of rem / b in binary: what is left after the given number
\* of bits, and whether the last bit is 1
RECURSIVE Mantissa(_, _, _, _)
Mantissa(rem, b, bits, odd) ==
  IF bits = 0 THEN [rem |-> rem, odd |-> odd]
  ELSE IF 2 * rem >= b THEN Mantissa(2 * rem - b, b, bits - 1, TRUE)
  ELSE Mantissa(2 * rem, b, bits - 1, FALSE)

\* a / b at line 65, 0 < a and 0 < b: where the double it yields (53 bits,
\* nearest, ties to even) lies from the quotient: 1 above, -1 below, 0 on it
DoubleSide(a, b) ==
  LET a1 == AtLeast(a, b)
      b1 == AtMost(b, a1)
      m == Mantissa(a1 - b1, b1, 52, TRUE)
  IN IF m.rem = 0 THEN 0
     ELSE IF 2 * m.rem > b1 THEN 1
     ELSE IF 2 * m.rem < b1 THEN -1
     ELSE IF m.odd THEN 1 ELSE -1

\* round(num / den, 2) in hundredths, 0 <= num: the double is rounded to
\* the nearest hundredth; a quotient half-way between two hundredths goes
\* where its double lies, and to the even one when the double is the quotient
RoundPos(num, den) ==
  LET q == (100 * num) \div den
      r == (100 * num) % den
  IN IF 2 * r < den THEN q
     ELSE IF 2 * r > den THEN q + 1
     ELSE IF DoubleSide(num, den) > 0 THEN q + 1
     ELSE IF DoubleSide(num, den) < 0 THEN q
     ELSE IF q % 2 = 0 THEN q ELSE q + 1

\* round(num / den, 2) in hundredths; division and rounding are symmetric
Round2(num, den) ==
  IF num < 0 THEN 0 - RoundPos(0 - num, den) ELSE RoundPos(num, den)

\* Integers beyond the ones a variable holds are sequences of digits in
\* base 10000, the lowest first.

\* 2**1024 - 2**970, half-way between the largest double and 2**1024: a
\* quotient from there on rounds to no double
FloatBound ==
<<
   7792, 7449, 9041, 177, 4288, 930, 9508, 5969, 7115, 4342, 1070, 3655,
   8444, 7416, 7190, 5292, 3647, 8349, 9860, 1481, 8429, 9622, 6695,
   5713, 9855, 7006, 7302, 4475, 3176, 7115, 5817, 5484, 2738, 3676, 838,
   7, 8902, 8190, 8206, 1505, 8867, 6574, 2630, 4040, 8519, 5547, 4655,
   9109, 2887, 1669, 2864, 6330, 709, 5872, 7977, 4901, 9466, 4750, 9276,
   9682, 444, 7898, 1737, 6936, 3782, 7100, 4132, 7993, 4150, 5303, 7140,
   7289, 793, 3158, 4862, 9313, 7976, 1
>>

\* c added to the digits, every digit brought below 10000
RECURSIVE Carry(_, _)
Carry(digits, c) ==
  IF digits = <<>>
  THEN IF c = 0 THEN <<>> ELSE <<c % 10000>> \o Carry(<<>>, c \div 10000)
  ELSE <<(Head(digits) + c) % 10000>>
         \o Carry(Tail(digits), (Head(digits) + c) \div 10000)

\* the digits of k times the number, plus c
Times(digits, k, c) == Carry([i \in 1..Len(digits) |-> k * digits[i]], c)

\* x >= y on two such sequences without leading zero
RECURSIVE GreaterEq(_, _)
GreaterEq(x, y) ==
  IF Len(x) # Len(y) THEN Len(x) > Len(y)
  ELSE IF x = <<>> THEN TRUE
  ELSE IF x[Len(x)] # y[Len(y)] THEN x[Len(x)] > y[Len(y)]
  ELSE GreaterEq(SubSeq(x, 1, Len(x) - 1), SubSeq(y, 1, Len(y) - 1))

\* big * 10**309 + c, 0 < big and 0 <= c: 10**309 is 10 * 10000**77
BigDigits(big, c) == Carry([i \in 1..78 |-> IF i = 78 THEN 10 * big ELSE 0], c)

\* sum / den at line 65 raises OverflowError, 0 < den: the quotient is at
\* FloatBound or beyond, on either side of 0
RECURSIVE DivOverflows(_, _)
DivOverflows(sum, den) ==
  IF sum.big = 0 THEN FALSE
  ELSE IF sum.big < 0
    THEN DivOverflows([big |-> 0 - sum.big, n |-> 0 - sum.n], den)
  ELSE IF sum.n >= 0
    THEN GreaterEq(BigDigits(sum.big, sum.n), Times(FloatBound, den, 0))
  ELSE GreaterEq(BigDigits(sum.big, 0), Times(FloatBound, den, 0 - sum.n))

\* round(sum / den, 2), 0 < den and no overflow: a double of 2**53 or more
\* has no decimals to round
Average(sum, den) ==
  IF sum.big = 0 THEN [big |-> 0, n |-> Round2(sum.n, den), den |-> 100]
  ELSE [big |-> sum.big, n |-> sum.n, den |-> den]

----------------------------------------------------------------------------
\* The body of the loop, lines 27-55

EmptyMap == [x \in {} |-> 0]

Acc0 ==
  [total_requests |-> 0, total_response_time_sum |-> [big |-> 0, n |-> 0],
   status_code_counts |-> EmptyMap, hourly_requests |-> <<>>]

\* the line used as read, strip() forgotten
Strip_Missing(line) == line

Strip(line) == [line EXCEPT !.pad = FALSE]

IsEmpty(text) == text.kind = "empty" /\ ~text.pad

\* json.loads: the exception it raises, "none" when it yields a value
JsonLoads(text) ==
  IF text.kind \in {"empty", "garbage"} THEN "JSONDecodeError"
  ELSE IF text.kind = "deep" THEN "RecursionError"
  ELSE IF text.kind = "huge" THEN "ValueError"
  ELSE "none"

\* 'name' in log_entry
Contains(entry, v) ==
  IF entry.kind = "scalar" THEN [exc |-> "TypeError", has |-> FALSE]
  ELSE IF entry.kind = "array" THEN [exc |-> "none", has |-> FALSE]
  ELSE [exc |-> "none", has |-> v.t # "absent"]

\* "= 1" written for "+= 1"
CountRequest_Assign(acc) == [acc EXCEPT !.total_requests = 1]

CountRequest(acc) == [acc EXCEPT !.total_requests = @ + 1]

\* sum += value for an integer or a boolean
SumAdd(sum, v) ==
  IF v.t = "bigint" THEN [sum EXCEPT !.big = @ + v.n]
  ELSE [sum EXCEPT !.n = @ + v.n]

\* a value that is not a number is passed over instead of raising
AddResponseTime_Lenient(acc, entry) ==
  LET c == Contains(entry, entry.rt) IN
  IF c.exc # "none" THEN [acc |-> acc, exc |-> c.exc]
  ELSE IF c.has /\ entry.rt.t \in {"int", "bigint", "bool"}
    THEN [acc |-> [acc EXCEPT !.total_response_time_sum = SumAdd(@, entry.rt)],
          exc |-> "none"]
  ELSE [acc |-> acc, exc |-> "none"]

AddResponseTime(acc, entry) ==
  LET c == Contains(entry, entry.rt) IN
  IF c.exc # "none" THEN [acc |-> acc, exc |-> c.exc]
  ELSE IF ~c.has THEN [acc |-> acc, exc |-> "none"]
  ELSE IF entry.rt.t \in {"int", "bigint", "bool"}
    THEN [acc |-> [acc EXCEPT !.total_response_time_sum = SumAdd(@, entry.rt)],
          exc |-> "none"]
  ELSE [acc |-> acc, exc |-> "TypeError"]

CountStatus(acc, entry) ==
  LET c == Contains(entry, entry.st) IN
  IF c.exc # "none" THEN [acc |-> acc, exc |-> c.exc]
  ELSE IF ~c.has THEN [acc |-> acc, exc |-> "none"]
  ELSE [acc |-> [acc EXCEPT !.status_code_counts = Inc(@, PyStr(entry.st))],
        exc |-> "none"]

CountHour(acc, entry) ==
  LET c == Contains(entry, entry.ts) IN
  IF c.exc # "none" THEN [acc |-> acc, exc |-> c.exc]
  ELSE IF ~c.has THEN [acc |-> acc, exc |-> "none"]
  ELSE IF entry.ts.t # "str" THEN [acc |-> acc, exc |-> "TypeError"]
  ELSE LET hour == PyInt(entry.ts.hh) IN
       IF hour.exc # "none" THEN [acc |-> acc, exc |-> hour.exc]
       ELSE [acc |-> [acc EXCEPT !.hourly_requests = IncOrdered(@, hour.val)],
             exc |-> "none"]

\* the request counted once its fields went through
TryBody_CountLast(acc, text) ==
  IF JsonLoads(text) # "none" THEN [acc |-> acc, exc |-> JsonLoads(text)]
  ELSE LET r2 == AddResponseTime(acc, text) IN
       IF r2.exc # "none" THEN r2
       ELSE LET r3 == CountStatus(r2.acc, text) IN
            IF r3.exc # "none" THEN r3
            ELSE LET r4 == CountHour(r3.acc, text) IN
                 IF r4.exc # "none" THEN r4
                 ELSE [acc |-> CountRequest(r4.acc), exc |-> "none"]

\* the try block, lines 32-51
TryBody(acc, text) ==
  IF JsonLoads(text) # "none" THEN [acc |-> acc, exc |-> JsonLoads(text)]
  ELSE LET r2 == AddResponseTime(CountRequest(acc), text) IN
       IF r2.exc # "none" THEN r2
       ELSE LET r3 == CountStatus(r2.acc, text) IN
            IF r3.exc # "none" THEN r3
            ELSE CountHour(r3.acc, text)

\* exceptions the handler at line 53 takes
Caught == {"JSONDecodeError", "KeyError", "TypeError"}

\* One iteration: the accumulators after it, the diagnostics written, and
\* the exception that leaves the loop ("none" when the loop goes on).
ProcessLine(acc, line) ==
  LET text == Strip(line) IN
  IF IsEmpty(text) THEN [acc |-> acc, printed |-> 0, exc |-> "none"]
  ELSE LET r == TryBody(acc, text) IN
       IF r.exc = "none" THEN [acc |-> r.acc, printed |-> 0, exc |-> "none"]
       ELSE IF r.exc \in Caught THEN [acc |-> r.acc, printed |-> 1, exc |-> "none"]
       ELSE [acc |-> r.acc, printed |-> 0, exc |-> r.exc]

----------------------------------------------------------------------------
\* The end of analyze_log, lines 64-79

None == [tag |-> "None"]

\* no value: before analyze_log returns, and when it raises
NoValue == [tag |-> "unset"]

Raise(e) == [tag |-> "raise", exc |-> e]

BusiestHour(hours) == IF hours = <<>> THEN {} ELSE {PyMax(hours)}

Finalize(acc) ==
  IF acc.total_requests > 0
     /\ DivOverflows(acc.total_response_time_sum, acc.total_requests)
  THEN Raise("OverflowError")
  ELSE
  [tag |-> "dict",
   total_requests |-> acc.total_requests,
   average_response_time_ms |->
     IF acc.total_requests > 0
     THEN Average(acc.total_response_time_sum, acc.total_requests)
     ELSE [big |-> 0, n |-> 0, den |-> 100],
   status_code_counts |-> acc.status_code_counts,
   busiest_hour |-> BusiestHour(acc.hourly_requests)]

\* the test made on the number of requests instead of on the dictionary
Truthy_Total(r) == r.tag = "dict" /\ r.total_requests > 0

\* bool(results) at line 95
Truthy(r) == r.tag = "dict" /\ Cardinality(DOMAIN r \ {"tag"}) > 0

\* analyze_log as a function of the lines of a file that opens and reads
RECURSIVE Run(_, _, _)
Run(acc, printed, seq) ==
  IF seq = <<>> THEN [acc |-> acc, stderr |-> printed, exc |-> "none"]
  ELSE LET r == ProcessLine(acc, Head(seq)) IN
       IF r.exc # "none"
       THEN [acc |-> r.acc, stderr |-> printed + 1, exc |-> r.exc]
       ELSE Run(r.acc, printed + r.printed, Tail(seq))

\* what the call at line 93 yields
AnalyzeLog(seq) ==
  LET r == Run(Acc0, 0, seq) IN
  IF r.exc # "none" THEN None
  ELSE IF Finalize(r.acc).tag = "raise" THEN NoValue
  ELSE Finalize(r.acc)

----------------------------------------------------------------------------
\* The program

Acc ==
  [total_requests |-> total_requests,
   total_response_time_sum |-> total_response_time_sum,
   status_code_counts |-> status_code_counts,
   hourly_requests |-> hourly_requests]

Init ==
  /\ pc = "start"
  /\ lines = <<>>
  /\ total_requests = 0
  /\ total_response_time_sum = [big |-> 0, n |-> 0]
  /\ status_code_counts = EmptyMap
  /\ hourly_requests = <<>>
  /\ stderr = 0
  /\ raised = "none"
  /\ result = NoValue
  /\ stdout = <<>>
  /\ exit_code = -1

\* open() succeeds, line 24
OpenFile ==
  /\ pc = "start"
  /\ pc' = "reading"
  /\ UNCHANGED <<lines, total_requests, total_response_time_sum,
                 status_code_counts, hourly_requests, stderr, raised, result,
                 stdout, exit_code>>

\* open() raises: lines 57-62
OpenFails ==
  /\ pc = "start"
  /\ \E e \in {"FileNotFoundError", "PermissionError"} : raised' = e
  /\ stderr' = stderr + 1
  /\ result' = None
  /\ pc' = "returned"
  /\ UNCHANGED <<lines, total_requests, total_response_time_sum,
                 status_code_counts, hourly_requests, stdout, exit_code>>

\* one iteration of the loop at line 25
ReadLine ==
  /\ pc = "reading"
  /\ Len(lines) < MaxLines
  /\ \E line \in Lines :
       LET r == ProcessLine(Acc, line) IN
       /\ lines' = Append(lines, line)
       /\ total_requests' = r.acc.total_requests
       /\ total_response_time_sum' = r.acc.total_response_time_sum
       /\ status_code_counts' = r.acc.status_code_counts
       /\ hourly_requests' = r.acc.hourly_requests
       /\ IF r.exc = "none"
          THEN /\ stderr' = stderr + r.printed
               /\ UNCHANGED <<pc, raised, result>>
          ELSE /\ stderr' = stderr + 1
               /\ raised' = r.exc
               /\ result' = None
               /\ pc' = "returned"
  /\ UNCHANGED <<stdout, exit_code>>

\* reading the file raises (the text cannot be decoded, the device fails)
ReadFails ==
  /\ pc = "reading"
  /\ \E e \in {"UnicodeDecodeError", "OSError"} : raised' = e
  /\ stderr' = stderr + 1
  /\ result' = None
  /\ pc' = "returned"
  /\ UNCHANGED <<lines, total_requests, total_response_time_sum,
                 status_code_counts, hourly_requests, stdout, exit_code>>

\* the file ends: lines 64-79; the division of line 65 is in no try block
EndOfFile ==
  /\ pc = "reading"
  /\ IF Finalize(Acc).tag = "raise"
     THEN /\ raised' = Finalize(Acc).exc
          /\ pc' = "uncaught"
          /\ UNCHANGED result
     ELSE /\ result' = Finalize(Acc)
          /\ pc' = "returned"
          /\ UNCHANGED raised
  /\ UNCHANGED <<lines, total_requests, total_response_time_sum,
                 status_code_counts, hourly_requests, stderr,
                 stdout, exit_code>>

\* the exception leaves analyze_log and main at line 93: the interpreter
\* writes the traceback and exits with 1
Uncaught ==
  /\ pc = "uncaught"
  /\ stderr' = stderr + 1
  /\ exit_code' = 1
  /\ pc' = "exited"
  /\ UNCHANGED <<lines, total_requests, total_response_time_sum,
                 status_code_counts, hourly_requests, raised, result, stdout>>

\* main, lines 93-100
Main ==
  /\ pc = "returned"
  /\ IF Truthy(result)
     THEN stdout' = Append(stdout, result) /\ exit_code' = 0
     ELSE stdout' = stdout /\ exit_code' = 1
  /\ pc' = "exited"
  /\ UNCHANGED <<lines, total_requests, total_response_time_sum,
                 status_code_counts, hourly_requests, stderr, raised, result>>

Next ==
  OpenFile \/ OpenFails \/ ReadLine \/ ReadFails \/ EndOfFile \/ Uncaught \/ Main

Spec == Init /\ [][Next]_vars

----------------------------------------------------------------------------
\* Properties

IOErrors == {"FileNotFoundError", "PermissionError", "UnicodeDecodeError", "OSError"}

Last(seq) == seq[Len(seq)]

\* json.loads fails on the line
FailsToDecode(line) == ~IsEmpty(Strip(line)) /\ JsonLoads(Strip(line)) # "none"

Decodable(line) == ~FailsToDecode(line)

Decodes(line) == ~IsEmpty(Strip(line)) /\ JsonLoads(Strip(line)) = "none"

Count(seq, i) == Cardinality({j \in 1..i : Decodes(seq[j])})

Undecodable(seq) == Cardinality({j \in 1..Len(seq) : FailsToDecode(seq[j])})

RECURSIVE SumMap(_)
SumMap(d) ==
  IF DOMAIN d = {} THEN 0
  ELSE LET k == CHOOSE k \in DOMAIN d : TRUE IN
       d[k] + SumMap([x \in DOMAIN d \ {k} |-> d[x]])

RECURSIVE SumOrdered(_)
SumOrdered(d) == IF d = <<>> THEN 0 ELSE Head(d).count + SumOrdered(Tail(d))

\* a line that goes through the whole loop body without an exception
Valid(line) ==
  /\ line.kind = "object"
  /\ ProcessLine(Acc0, line).exc = "none"
  /\ ProcessLine(Acc0, line).printed = 0

Permute(seq, p) == [i \in 1..Len(seq) |-> seq[p[i]]]

\* values the addition at line 39 rejects with TypeError; true and false are
\* integers to the language and are added as 1 and 0
NonNumeric(v) == v.t \in {"str", "null"}

\* C1: a file that opens and reads never makes analyze_log give up: once
\* it has returned, it has returned a dictionary.
C1_NeverAborts ==
  (pc \in {"returned", "exited"} /\ raised \notin IOErrors) => result.tag = "dict"

\* C2: total_requests is the number of lines read so far that are not
\* empty after strip() and that json.loads accepts, whatever their fields
\* hold, and the returned dictionary carries that number.
C2_TotalIsDecodedLines ==
  /\ total_requests = Count(lines, Len(lines))
  /\ result.tag = "dict" => result.total_requests = Count(lines, Len(lines))

C2_Witness ==
  /\ result.tag = "dict"
  /\ Len(lines) = 3
  /\ \E i \in 1..3 : lines[i].kind = "object" /\ NonNumeric(lines[i].rt)
  /\ \E i \in 1..3 : lines[i].kind = "garbage"
  /\ \E i \in 1..3 : lines[i].kind = "empty"
  /\ result.total_requests = 1

\* C3: the dictionary returned for valid lines is the one returned for
\* every reordering of them.
C3_OrderIndependent ==
  (pc = "returned" /\ result.tag = "dict"
     /\ \A i \in 1..Len(lines) : Valid(lines[i]))
  => \A p \in Permutations(1..Len(lines)) :
       AnalyzeLog(Permute(lines, p)) = result

\* C4: every key of hourly_requests, and the busiest hour returned, is an
\* hour of the day.
C4_HoursInRange ==
  /\ \A i \in 1..Len(hourly_requests) : hourly_requests[i].key \in 0..23
  /\ result.tag = "dict" => result.busiest_hour \subseteq 0..23

\* C5: as long as the file reads, the accumulators are those of the same
\* lines with the ones json.loads fails on taken out, each such line has
\* written exactly one diagnostic, and what analyze_log returns is what it
\* returns for the lines without them.
C5_DecodeFailuresTransparent ==
  raised \notin IOErrors =>
    LET r == Run(Acc0, 0, SelectSeq(lines, Decodable)) IN
    /\ Acc = r.acc
    /\ stderr = r.stderr + Undecodable(lines)
    /\ pc \in {"returned", "exited"} =>
         result = AnalyzeLog(SelectSeq(lines, Decodable))

\* C6: in every state the counts of status_code_counts add up to at most
\* total_requests, and so do the counts of hourly_requests.
C6_CountsBounded ==
  /\ SumMap(status_code_counts) <= total_requests
  /\ SumOrdered(hourly_requests) <= total_requests

C6_Witness ==
  /\ pc = "reading"
  /\ total_requests = 3
  /\ SumMap(status_code_counts) = 2
  /\ SumOrdered(hourly_requests) = 1
  /\ stderr = 1

\* C7: when the file cannot be opened analyze_log returns None after one
\* diagnostic and main prints nothing and exits with 1; when analyze_log
\* returns a dictionary main prints exactly it and exits with 0.
C7_ExitCodes ==
  /\ raised \in {"FileNotFoundError", "PermissionError"} =>
       /\ result = None
       /\ stderr = 1
       /\ stdout = <<>>
       /\ pc = "exited" => exit_code = 1
  /\ (pc = "exited" /\ result.tag = "dict") =>
       stdout = <<result>> /\ exit_code = 0

C7_Witness ==
  /\ pc = "exited"
  /\ raised = "FileNotFoundError"
  /\ exit_code = 1
  /\ stdout = <<>>

\* C8: the busiest hour returned is None exactly when no line read has
\* added to hourly_requests; otherwise it is a key of hourly_requests
\* whose count no other key exceeds.
C8_BusiestHour ==
  result.tag = "dict" =>
    /\ result.busiest_hour = {} <=> hourly_requests = <<>>
    /\ result.busiest_hour = {} <=>
         \A i \in 1..Len(lines) :
           ProcessLine(Acc0, lines[i]).acc.hourly_requests = <<>>
    /\ \A h \in result.busiest_hour :
         \E i \in 1..Len(hourly_requests) :
           /\ hourly_requests[i].key = h
           /\ \A j \in 1..Len(hourly_requests) :
                hourly_requests[j].count <= hourly_requests[i].count

C8_Witness ==
  /\ result.tag = "dict"
  /\ Len(hourly_requests) = 2
  /\ hourly_requests[1].count = 1
  /\ hourly_requests[2].count = 2
  /\ result.busiest_hour = {hourly_requests[2].key}

\* C9: a file of no lines, or of lines that are empty after strip(), gives
\* 0 requests, an average of 0, no status code and no busiest hour, and
\* writes no diagnostic.
C9_EmptyInput ==
  (result.tag = "dict" /\ \A i \in 1..Len(lines) : lines[i].kind = "empty")
  => /\ result = [tag |-> "dict", total_requests |-> 0,
                  average_response_time_ms |-> [big |-> 0, n |-> 0, den |-> 100],
                  status_code_counts |-> EmptyMap, busiest_hour |-> {}]
     /\ stderr = 0

C9_Witness ==
  /\ result.tag = "dict"
  /\ Len(lines) = 2
  /\ lines[1].kind = "empty" /\ lines[1].pad
  /\ lines[2].kind = "empty" /\ ~lines[2].pad
  /\ result.total_requests = 0

\* C10: reading an object whose response_time_ms is there and is not a
\* number counts the request, leaves the sum, the status codes and the
\* hours as they were, writes one diagnostic, and the loop goes on.
C10_NonNumericResponseTime ==
  [][(pc = "reading" /\ Len(lines') = Len(lines) + 1
        /\ Last(lines').kind = "object" /\ NonNumeric(Last(lines').rt))
     => /\ total_requests' = total_requests + 1
        /\ total_response_time_sum' = total_response_time_sum
        /\ status_code_counts' = status_code_counts
        /\ hourly_requests' = hourly_requests
        /\ stderr' = stderr + 1
        /\ pc' = "reading" /\ result' = result /\ raised' = raised]_vars

C10_Witness ==
  /\ pc = "reading"
  /\ Len(lines) = 2
  /\ lines[1].kind = "object" /\ NonNumeric(lines[1].rt)
  /\ lines[1].st.t = "int" /\ lines[1].ts.t = "str"
  /\ Valid(lines[2]) /\ lines[2].st = JInt(404) /\ lines[2].rt.t = "absent"
  /\ total_requests = 2
  /\ total_response_time_sum = [big |-> 0, n |-> 0]
  /\ DOMAIN status_code_counts = {"404"}
  /\ Len(hourly_requests) = 1 /\ hourly_requests[1].count = 1
  /\ stderr = 1

====
